---- MODULE Spec2Model ----
(***************************************************************************)
(* Model of the store-and-forward sender of the Personal Input Tracker:    *)
(* DataSender (src/sender.py), chunked and PendingPayload (src/utils.py).  *)
(*                                                                         *)
(* Threads: the "DataSender" worker thread running _run, the shell thread  *)
(* calling start()/stop() (src/main.py, src/gui.py), and producer threads  *)
(* calling enqueue.  Each Python statement that reads or writes shared     *)
(* state is one step, so that the interleavings the interpreter allows     *)
(* are the interleavings of the model.                                     *)
(*                                                                         *)
(* Text is modelled character by character.  A character is one of         *)
(*   "a"   an ordinary letter                                              *)
(*   "n"   the letter n, "u" the letter u (they follow a backslash in the  *)
(*         escapes of a line feed and of U+2028)                           *)
(*   "QT"  a double quote          "BS"  a backslash                       *)
(*   "LF"  a line feed (U+000A)    "LS"  a line separator (U+2028)         *)
(*   "LB"  the opening  {"data": "  of a serialized event                  *)
(*   "RB"  the closing  "}          of a serialized event                  *)
(* An event is the dict {"data": s}; it is represented by the string s.    *)
(***************************************************************************)
EXTENDS Integers, Sequences, FiniteSets, TLC

VARIABLES
    queue,          \* self.queue: the events put and not yet got
    pending_cache,  \* self._pending_cache.data
    sent_count,     \* self.sent_count
    pending_count,  \* self.pending_count
    stop_event,     \* self._stop_event is set
    file,           \* content of config.pending_cache_path, or Absent
    wpc,            \* position of the worker thread in _run
    pending,        \* the worker's local `pending` (line 65)
    idx,            \* the worker's position in `batches` (line 81)
    response,       \* the worker's local `response` (line 83), or the exception
    mpc,            \* position of the shell thread in stop()
    ftext,          \* per thread: the text dump_to_file is writing
    fd,             \* per thread: the open file still is the one at the path
    ppc,            \* per producer: position in enqueue
    ptmp,           \* per producer: the value computed on line 50
    lifecycle,      \* history: the last of start()/stop() that returned
    accepted,       \* history: events loaded at construction or enqueued
    delivered,      \* history: events of the chunks a POST accepted
    lastStop,       \* history: the queue when stop() was last called
    cycleSent,      \* history: sent_count when the current cycle began
    overlap,        \* history: an enqueue call was under way after line 71 ran
    drained,        \* history: the events get_nowait has returned, in order
    threads_alive,  \* history: threads started on _run that have not returned
    transport_up,   \* environment: the endpoint accepts every POST from now on
    write_error,    \* history: a write of the store has failed
    arg,            \* input of the pure-function specifications
    res             \* result of the pure-function specifications

vars == <<queue, pending_cache, sent_count, pending_count, stop_event, file,
          wpc, pending, idx, response, mpc, ftext, fd, ppc, ptmp, lifecycle,
          accepted, delivered, lastStop, cycleSent, overlap, drained,
          threads_alive, transport_up, write_error, arg, res>>

(***************************************************************************)
(* Bounds of the model.                                                    *)
(***************************************************************************)
MaxEvents == 2      \* enqueue calls in one behaviour
MaxSent == 4        \* cap on sent_count (it grows with every retransmission)
MaxChunkLen == 4    \* longest working set given to chunked on its own
MaxBatch == 3       \* largest batch size given to chunked on its own
MaxSetLen == 2      \* longest pending set saved and loaded on its own
MaxLines == 5       \* most lines of a stored file loaded on its own

\* config.batch_size as configured in the model (the default is 25).
batch_size == 2

\* Values apart from every text and every event.
Absent == <<"ABSENT">>      \* the path does not exist
Bad == <<"BAD">>            \* json.loads raised JSONDecodeError

Threads == {"w", "m"}

\* What session.post gives for a chunk: a response with its status code, or
\* a requests.RequestException.
Outcomes ==
    { [raised |-> FALSE, status |-> 200], [raised |-> FALSE, status |-> 299],
      [raised |-> FALSE, status |-> 300], [raised |-> TRUE, status |-> 0] }
NoResponse == [raised |-> FALSE, status |-> 0]
Producers == {"p1"}

\* The events of a behaviour, all different; EventPool[1] is the event a
\* previous run of the program may have left in the pending store.
EventPool ==
    << <<"a">>, <<"LF", "a">>, <<"QT">>, <<"LS">>, <<"BS", "a">>,
       <<"a", "a">>, <<"a", "LF">>, <<"QT", "QT">> >>

Range(s) == {s[i] : i \in 1..Len(s)}

(***************************************************************************)
(* utils.chunked                                                           *)
(***************************************************************************)
RECURSIVE chunkedLoop(_, _, _, _)
chunkedLoop(items, size, chunk, out) ==
    IF items = <<>>
    THEN IF chunk # <<>> THEN Append(out, chunk) ELSE out
    ELSE LET c == Append(chunk, Head(items))
         IN  IF Len(c) >= size
             THEN chunkedLoop(Tail(items), size, <<>>, Append(out, c))
             ELSE chunkedLoop(Tail(items), size, c, out)

\* A faulty variant of chunked: a chunk is yielded when longer than size.
chunked_off_by_one(iterable, size) == chunkedLoop(iterable, size + 1, <<>>, <<>>)

chunked(iterable, size) == chunkedLoop(iterable, size, <<>>, <<>>)

RECURSIVE Concat(_)
Concat(ss) == IF ss = <<>> THEN <<>> ELSE Head(ss) \o Concat(Tail(ss))

(***************************************************************************)
(* json.dumps and json.loads on an event, str.splitlines, and              *)
(* PendingPayload.dump_to_file / load_from_file built from them.           *)
(***************************************************************************)
\* A faulty variant of EscapeChar: json.dumps called with ensure_ascii=False, which
\* leaves non-ASCII characters as they are.
EscapeCharNoAscii(c) ==
    CASE c = "QT" -> <<"BS", "QT">>
      [] c = "BS" -> <<"BS", "BS">>
      [] c = "LF" -> <<"BS", "n">>
      [] OTHER    -> <<c>>

\* json.dumps escapes with ensure_ascii=True (the default): quote, backslash,
\* control characters and every non-ASCII character.
EscapeChar(c) ==
    CASE c = "QT" -> <<"BS", "QT">>
      [] c = "BS" -> <<"BS", "BS">>
      [] c = "LF" -> <<"BS", "n">>
      [] c = "LS" -> <<"BS", "u">>
      [] OTHER    -> <<c>>

json_dumps(item) ==
    <<"LB">> \o Concat([i \in 1..Len(item) |-> EscapeChar(item[i])]) \o <<"RB">>

\* The body of the string, from position i: the decoded event, or Bad.
RECURSIVE loadsBody(_, _, _)
loadsBody(line, i, acc) ==
    IF i > Len(line) THEN Bad
    ELSE LET c == line[i] IN
         CASE c = "RB" -> IF i = Len(line) THEN acc ELSE Bad
           [] c = "BS" ->
                IF i + 1 > Len(line) THEN Bad
                ELSE LET d == line[i + 1] IN
                     CASE d = "QT" -> loadsBody(line, i + 2, Append(acc, "QT"))
                       [] d = "BS" -> loadsBody(line, i + 2, Append(acc, "BS"))
                       [] d = "n"  -> loadsBody(line, i + 2, Append(acc, "LF"))
                       [] d = "u"  -> loadsBody(line, i + 2, Append(acc, "LS"))
                       [] OTHER    -> Bad
           [] c \in {"a", "n", "u", "LS"} -> loadsBody(line, i + 1, Append(acc, c))
           [] OTHER -> Bad

json_loads(line) ==
    IF Len(line) >= 1 /\ line[1] = "LB" THEN loadsBody(line, 2, <<>>) ELSE Bad

\* str.splitlines: a line ends at a line feed or another line boundary such
\* as U+2028; the text after the last boundary is a line when not empty.
LineBoundaries == {"LF", "LS"}

RECURSIVE splitLoop(_, _, _, _)
splitLoop(text, i, cur, out) ==
    IF i > Len(text)
    THEN IF cur # <<>> THEN Append(out, cur) ELSE out
    ELSE IF text[i] \in LineBoundaries
         THEN splitLoop(text, i + 1, <<>>, Append(out, cur))
         ELSE splitLoop(text, i + 1, Append(cur, text[i]), out)

splitlines(text) == splitLoop(text, 1, <<>>, <<>>)

\* "\n".join(parts)
RECURSIVE join(_)
join(parts) ==
    IF parts = <<>> THEN <<>>
    ELSE IF Len(parts) = 1 THEN parts[1]
    ELSE parts[1] \o <<"LF">> \o join(Tail(parts))

\* The content of a file after `text` is written at its start.
written(old, text) == text \o SubSeq(old, Len(text) + 1, Len(old))

\* The text dump_to_file hands to write_text.
dump_text(data) == join([i \in 1..Len(data) |-> json_dumps(data[i])]) \o <<"LF">>

\* utils.py lines 90-93: the file after dump_to_file has opened it for
\* writing, which empties it, written the text and closed it.
dump_to_file(data) == written(<<>>, dump_text(data))

\* A faulty variant of loadEntries: the try statement put around the whole
\* loop, so that the first malformed line ends the load.
RECURSIVE loadEntriesStopAtBad(_)
loadEntriesStopAtBad(lines) ==
    IF lines = <<>> THEN <<>>
    ELSE LET e == json_loads(Head(lines))
         IN  IF e = Bad THEN <<>>
             ELSE <<e>> \o loadEntriesStopAtBad(Tail(lines))

\* utils.py lines 100-105: each line is parsed on its own, and a line on
\* which json.loads raises JSONDecodeError is skipped.
RECURSIVE loadEntries(_)
loadEntries(lines) ==
    IF lines = <<>> THEN <<>>
    ELSE LET e == json_loads(Head(lines))
         IN  IF e = Bad THEN loadEntries(Tail(lines))
             ELSE <<e>> \o loadEntries(Tail(lines))

load_from_file(f) == IF f = Absent THEN <<>> ELSE loadEntries(splitlines(f))

(***************************************************************************)
(* Construction: DataSender.__init__ after some earlier run of the program *)
(* left the pending store absent, holding one event, or holding one event  *)
(* and a partial line.                                                     *)
(***************************************************************************)
InitFiles ==
    { Absent,
      dump_text(<<EventPool[1]>>),
      dump_text(<<EventPool[1]>>) \o <<"LB", "a">> }

\* The events enqueue has accepted so far, and the payload of the next call.
Enqueued == {i \in 2..Len(EventPool) : EventPool[i] \in Range(accepted)}
NextEvent == EventPool[Cardinality(Enqueued) + 2]

\* DataSender.__init__, lines 22-31, over the file found at the path, with
\* the threads P going to call enqueue.
ConstructedWith(P) ==
    /\ queue = <<>>
    /\ stop_event = FALSE
    /\ sent_count = 0
    /\ pending_cache = load_from_file(file)
    /\ pending_count = Len(load_from_file(file))
    /\ wpc = "none"
    /\ pending = <<>>
    /\ idx = 0
    /\ response = NoResponse
    /\ mpc = "idle"
    /\ ftext = [t \in Threads |-> <<>>]
    /\ fd = [t \in Threads |-> FALSE]
    /\ ppc = [p \in P |-> "idle"]
    /\ ptmp = [p \in P |-> 0]
    /\ lifecycle = "new"
    /\ accepted = load_from_file(file)
    /\ delivered = {}
    /\ lastStop = <<>>
    /\ cycleSent = 0
    /\ overlap = FALSE
    /\ drained = <<>>
    /\ threads_alive = 0
    /\ transport_up = FALSE
    /\ write_error = FALSE

Constructed == ConstructedWith(Producers)

Init ==
    /\ file \in InitFiles
    /\ Constructed
    /\ arg = <<>>
    /\ res = <<>>

shared == <<queue, pending_cache, sent_count, pending_count, stop_event, file>>
workerLocal == <<wpc, pending, idx, response>>
flushLocal == <<ftext, fd>>
producerLocal == <<ppc, ptmp>>
history == <<lifecycle, accepted, delivered, lastStop, cycleSent, overlap>>
ghost == <<drained, threads_alive, transport_up, write_error>>
pure == <<arg, res>>

(***************************************************************************)
(* DataSender.enqueue, one producer thread p.                              *)
(***************************************************************************)
\* sender.py line 24: Queue() is given no maxsize, which is maxsize 0.
queue_maxsize == 0

\* A faulty variant of queue_full: the queue made with Queue(maxsize=1).
queue_full_at_one(q) == Len(q) >= 1

\* Queue.put waits while this holds: a maxsize above 0 has been reached.
queue_full(q) == queue_maxsize > 0 /\ Len(q) >= queue_maxsize

\* line 49: self.queue.put(payload)
enqueue_put(p) ==
    /\ ppc[p] = "idle"
    /\ Cardinality(Enqueued) < MaxEvents
    /\ ~queue_full(queue)
    /\ queue' = Append(queue, NextEvent)
    /\ accepted' = Append(accepted, NextEvent)
    /\ ppc' = [ppc EXCEPT ![p] = "L50"]
    /\ overlap' = (overlap \/ wpc = "L72")
    /\ UNCHANGED <<pending_cache, sent_count, pending_count, stop_event, file,
                   workerLocal, mpc, flushLocal, ptmp, lifecycle, delivered,
                   lastStop, cycleSent, ghost, pure>>

\* line 50, right-hand side: self.queue.qsize() + len(self._pending_cache.data)
enqueue_count(p) ==
    /\ ppc[p] = "L50"
    /\ ptmp' = [ptmp EXCEPT ![p] = Len(queue) + Len(pending_cache)]
    /\ ppc' = [ppc EXCEPT ![p] = "L50w"]
    /\ UNCHANGED <<shared, workerLocal, mpc, flushLocal, history, ghost, pure>>

\* line 50, the assignment to self.pending_count
enqueue_store(p) ==
    /\ ppc[p] = "L50w"
    /\ pending_count' = ptmp[p]
    /\ ptmp' = [ptmp EXCEPT ![p] = 0]
    /\ ppc' = [ppc EXCEPT ![p] = "idle"]
    /\ UNCHANGED <<queue, pending_cache, sent_count, stop_event, file,
                   workerLocal, mpc, flushLocal, history, ghost, pure>>

(***************************************************************************)
(* DataSender.stats                                                        *)
(***************************************************************************)
stats == <<sent_count, pending_count + Len(queue)>>

(***************************************************************************)
(* DataSender._run and _send_batch: the worker thread.  The locals of a    *)
(* cycle are forgotten when the cycle ends: the next one assigns them      *)
(* before it reads them.                                                   *)
(***************************************************************************)
\* line 63: while not self._stop_event.is_set()
run_while ==
    /\ wpc = "L63"
    /\ wpc' = IF stop_event THEN "exit" ELSE "L64"
    /\ threads_alive' = IF stop_event THEN threads_alive - 1 ELSE threads_alive
    /\ UNCHANGED <<shared, pending, idx, response, mpc, flushLocal,
                   producerLocal, history, drained, transport_up,
                   write_error, pure>>

\* line 64: time.sleep(interval) returns
run_sleep ==
    /\ wpc = "L64"
    /\ wpc' = "L65"
    /\ UNCHANGED <<shared, pending, idx, response, mpc, flushLocal,
                   producerLocal, history, ghost, pure>>

\* line 65, left operand: self._pending_cache.data
run_read_cache ==
    /\ wpc = "L65"
    /\ pending' = pending_cache
    /\ cycleSent' = sent_count
    /\ wpc' = "L56"
    /\ UNCHANGED <<shared, idx, response, mpc, flushLocal, producerLocal,
                   lifecycle, accepted, delivered, lastStop, overlap, ghost, pure>>

\* A faulty variant of nothing_to_send: the test of line 66 left out.
never_skips(working) == FALSE

\* line 66: if not pending: continue
nothing_to_send(working) == working = <<>>

\* A faulty variant of items_append: the drained item is put in front.
items_prepend(items, item) == <<item>> \o items

\* line 56: items.append(...)
items_append(items, item) == Append(items, item)

\* lines 54-59, one turn of the loop of _drain_queue: get_nowait returns the
\* head of the queue, or raises Empty, which ends the drain; then the rest
\* of line 65, lines 66-67 and lines 79-80.
drain_queue ==
    /\ wpc = "L56"
    /\ IF queue # <<>>
       THEN /\ pending' = items_append(pending, Head(queue))
            /\ drained' = items_append(drained, Head(queue))
            /\ queue' = Tail(queue)
            /\ UNCHANGED <<wpc, idx>>
       ELSE /\ wpc' = IF nothing_to_send(pending) THEN "L63" ELSE "L81"
            /\ idx' = IF nothing_to_send(pending) THEN 0 ELSE 1
            /\ UNCHANGED <<queue, pending, drained>>
    /\ UNCHANGED <<pending_cache, sent_count, pending_count, stop_event, file,
                   response, mpc, flushLocal, producerLocal, history,
                   threads_alive, transport_up, write_error, pure>>

\* line 79: batches = list(chunked(payloads, self.config.batch_size))
batches == chunked(pending, batch_size)

\* lines 83-87: session.post returns a response or raises.  While the
\* endpoint may still fail, a successful outcome is given only while
\* sent_count stays within the model's cap; once transport_up holds, every
\* outcome is a success.
send_post ==
    /\ wpc = "L81"
    /\ idx <= Len(batches)
    /\ \E outcome \in Outcomes :
         /\ IF transport_up
            THEN ~outcome.raised /\ outcome.status < 300
            ELSE \/ outcome.raised
                 \/ outcome.status >= 300
                 \/ sent_count + Len(batches[idx]) <= MaxSent
         /\ response' = outcome
    /\ wpc' = "L88"
    /\ UNCHANGED <<shared, pending, idx, mpc, flushLocal, producerLocal,
                   history, ghost, pure>>

\* A faulty variant of chunk_failed: the status of the response is not looked at.
chunk_failed_raise_only(r) == r.raised

\* lines 88 and 95: the chunk failed
chunk_failed(r) == r.raised \/ r.status >= 300

\* A faulty variant of send_check: the break statements of lines 91 and 97
\* left out, so that the chunks after a failed one are still sent.
send_check_no_break ==
    /\ wpc = "L88"
    /\ IF chunk_failed(response)
       THEN UNCHANGED <<sent_count, delivered>>
       ELSE /\ sent_count' = sent_count + Len(batches[idx])
            /\ delivered' = delivered \cup Range(batches[idx])
    /\ idx' = idx + 1
    /\ wpc' = "L81"
    /\ response' = NoResponse
    /\ UNCHANGED <<queue, pending_cache, pending_count, stop_event, file,
                   pending, mpc, flushLocal, producerLocal, lifecycle,
                   accepted, lastStop, cycleSent, overlap, ghost, pure>>

\* lines 88-98: a failed chunk ends the loop with all_success False, a
\* successful one is counted and the loop goes on
send_check ==
    /\ wpc = "L88"
    /\ IF chunk_failed(response)
       THEN /\ wpc' = "L74"
            /\ UNCHANGED <<sent_count, delivered, idx>>
       ELSE /\ sent_count' = sent_count + Len(batches[idx])
            /\ delivered' = delivered \cup Range(batches[idx])
            /\ idx' = idx + 1
            /\ wpc' = "L81"
    /\ response' = NoResponse
    /\ UNCHANGED <<queue, pending_cache, pending_count, stop_event, file,
                   pending, mpc, flushLocal, producerLocal, lifecycle,
                   accepted, lastStop, cycleSent, overlap, ghost, pure>>

\* line 81 with no chunk left, line 99 and line 69: _send_batch returns True
send_done ==
    /\ wpc = "L81"
    /\ idx > Len(batches)
    /\ wpc' = "L70"
    /\ UNCHANGED <<shared, pending, idx, response, mpc, flushLocal,
                   producerLocal, history, ghost, pure>>

\* line 70: self._pending_cache = PendingPayload([])
success_cache ==
    /\ wpc = "L70"
    /\ pending_cache' = <<>>
    /\ wpc' = "L71"
    /\ UNCHANGED <<queue, sent_count, pending_count, stop_event, file,
                   pending, idx, response, mpc, flushLocal, producerLocal,
                   history, ghost, pure>>

\* line 71: self.pending_count = self.queue.qsize()
success_count ==
    /\ wpc = "L71"
    /\ pending_count' = Len(queue)
    /\ overlap' = (\E p \in DOMAIN ppc : ppc[p] # "idle")
    /\ wpc' = "L72"
    /\ UNCHANGED <<queue, pending_cache, sent_count, stop_event, file,
                   pending, idx, response, mpc, flushLocal, producerLocal,
                   lifecycle, accepted, delivered, lastStop, cycleSent, ghost, pure>>

\* A faulty variant of success_unlink: the worker forgets to remove the file.
success_no_unlink ==
    /\ wpc = "L72"
    /\ pending' = <<>>
    /\ idx' = 0
    /\ cycleSent' = 0
    /\ overlap' = FALSE
    /\ wpc' = "L63"
    /\ UNCHANGED <<shared, response, mpc, flushLocal, producerLocal,
                   lifecycle, accepted, delivered, lastStop, ghost, pure>>

\* line 72: self.config.pending_cache_path.unlink(missing_ok=True); a file
\* another thread has open lives on without a name.
success_unlink ==
    /\ wpc = "L72"
    /\ file' = Absent
    /\ fd' = [t \in Threads |-> FALSE]
    /\ pending' = <<>>
    /\ idx' = 0
    /\ cycleSent' = 0
    /\ overlap' = FALSE
    /\ wpc' = "L63"
    /\ UNCHANGED <<queue, pending_cache, sent_count, pending_count,
                   stop_event, response, mpc, ftext, producerLocal, lifecycle,
                   accepted, delivered, lastStop, ghost, pure>>

\* A faulty variant of failure_remainder: line 74 left out, the old pending set is kept.
failure_keeps_old_cache == pending_cache

\* line 74, the argument: what the worker keeps as the pending set after a
\* cycle with a failed chunk
failure_remainder == pending

\* line 74: self._pending_cache = PendingPayload(pending)
failure_cache ==
    /\ wpc = "L74"
    /\ pending_cache' = failure_remainder
    /\ wpc' = "L75"
    /\ UNCHANGED <<queue, sent_count, pending_count, stop_event, file,
                   pending, idx, response, mpc, flushLocal, producerLocal,
                   history, ghost, pure>>

\* line 75: self.pending_count = len(pending); line 76 calls the flush
failure_count ==
    /\ wpc = "L75"
    /\ pending_count' = Len(pending)
    /\ wpc' = "L102"
    /\ UNCHANGED <<queue, pending_cache, sent_count, stop_event, file,
                   pending, idx, response, mpc, flushLocal, producerLocal,
                   history, ghost, pure>>

(***************************************************************************)
(* DataSender.flush_pending_to_disk, run by the worker (line 76) and by    *)
(* the shell thread in stop() (line 45).                                   *)
(***************************************************************************)
pcOf(t) == IF t = "w" THEN wpc ELSE mpc

\* Thread t goes on inside the flush.
goto(t, label) ==
    /\ IF t = "w" THEN wpc' = label /\ mpc' = mpc
                  ELSE mpc' = label /\ wpc' = wpc
    /\ UNCHANGED <<pending, idx, response, cycleSent>>

\* The flush returns: to the loop test on line 63, which ends the worker's
\* cycle, or to line 46 of stop().
flush_return(t) ==
    IF t = "w"
    THEN /\ wpc' = "L63"
         /\ pending' = <<>>
         /\ idx' = 0
         /\ cycleSent' = 0
         /\ UNCHANGED <<mpc, response>>
    ELSE /\ mpc' = "L46"
         /\ UNCHANGED <<wpc, pending, idx, response, cycleSent>>

\* lines 102-103: if not self._pending_cache.data: return
flush_check(t) ==
    /\ pcOf(t) = "L102"
    /\ IF pending_cache = <<>> THEN flush_return(t) ELSE goto(t, "L105")
    /\ UNCHANGED <<shared, flushLocal, producerLocal, lifecycle, accepted,
                   delivered, lastStop, overlap, ghost, pure>>

\* line 105 and utils.py line 92: the text is built from self._pending_cache
\* as it is now
flush_serialize(t) ==
    /\ pcOf(t) = "L105"
    /\ ftext' = [ftext EXCEPT ![t] = dump_text(pending_cache)]
    /\ goto(t, "open")
    /\ UNCHANGED <<shared, fd, producerLocal, lifecycle, accepted, delivered,
                   lastStop, overlap, ghost, pure>>

\* A faulty variant of write_failed: the exception is not caught and ends
\* the thread it is raised in.
write_failed_uncaught(t) ==
    IF t = "w"
    THEN /\ wpc' = "exit"
         /\ pending' = <<>>
         /\ idx' = 0
         /\ cycleSent' = 0
         /\ UNCHANGED <<mpc, response>>
    ELSE /\ mpc' = "idle"
         /\ UNCHANGED <<wpc, pending, idx, response, cycleSent>>

\* lines 107-108: except Exception: the error is logged and the flush
\* returns
write_failed(t) == flush_return(t)

\* utils.py line 93, write_text opens the path for writing: the file is
\* created or truncated; or the open raises OSError, which line 107 catches.
flush_open(t) ==
    /\ pcOf(t) = "open"
    /\ \/ /\ file' = <<>>
          /\ fd' = [fd EXCEPT ![t] = TRUE]
          /\ goto(t, "write")
          /\ UNCHANGED <<ftext, write_error>>
       \/ /\ write_failed(t)
          /\ ftext' = [ftext EXCEPT ![t] = <<>>]
          /\ write_error' = TRUE
          /\ UNCHANGED <<file, fd>>
    /\ UNCHANGED <<queue, pending_cache, sent_count, pending_count,
                   stop_event, producerLocal, lifecycle, accepted, delivered,
                   lastStop, overlap, drained, threads_alive, transport_up,
                   pure>>

\* utils.py line 93, write_text writes the text and closes the file; a file
\* unlinked since it was opened takes the text with it.
flush_write(t) ==
    /\ pcOf(t) = "write"
    /\ file' = IF fd[t] THEN written(file, ftext[t]) ELSE file
    /\ fd' = [fd EXCEPT ![t] = FALSE]
    /\ ftext' = [ftext EXCEPT ![t] = <<>>]
    /\ flush_return(t)
    /\ UNCHANGED <<queue, pending_cache, sent_count, pending_count,
                   stop_event, producerLocal, lifecycle, accepted, delivered,
                   lastStop, overlap, ghost, pure>>

(***************************************************************************)
(* DataSender.start and DataSender.stop, called by the shell thread.       *)
(***************************************************************************)
\* A faulty variant of is_alive: the test of line 34 left out.
never_alive == FALSE

\* self._thread and self._thread.is_alive()
is_alive == wpc \notin {"none", "exit"}

\* lines 33-39
start ==
    /\ mpc = "idle"
    /\ IF is_alive
       THEN UNCHANGED <<stop_event, wpc, threads_alive>>
       ELSE /\ stop_event' = FALSE
            /\ wpc' = "L63"
            /\ threads_alive' = threads_alive + 1
    /\ lifecycle' = "started"
    /\ UNCHANGED <<queue, pending_cache, sent_count, pending_count, file,
                   pending, idx, response, mpc, flushLocal, producerLocal,
                   accepted, delivered, lastStop, cycleSent, overlap, drained,
                   transport_up, write_error, pure>>

\* line 42: self._stop_event.set()
stop_set ==
    /\ mpc = "idle"
    /\ stop_event' = TRUE
    /\ mpc' = "L43"
    /\ lifecycle' = "stopping"
    /\ lastStop' = queue
    /\ UNCHANGED <<queue, pending_cache, sent_count, pending_count, file,
                   workerLocal, flushLocal, producerLocal, accepted,
                   delivered, cycleSent, overlap, ghost, pure>>

\* lines 43-44: self._thread.join(timeout=2) returns, the worker having
\* exited or the two seconds having passed; line 45 calls the flush
stop_join ==
    /\ mpc = "L43"
    /\ mpc' = "L102"
    /\ UNCHANGED <<shared, workerLocal, flushLocal, producerLocal, history,
                   ghost, pure>>

\* line 46: stop() returns
stop_return ==
    /\ mpc = "L46"
    /\ mpc' = "idle"
    /\ lifecycle' = "stopped"
    /\ UNCHANGED <<shared, workerLocal, flushLocal, producerLocal, accepted,
                   delivered, lastStop, cycleSent, overlap, ghost, pure>>

Next ==
    \/ \E p \in Producers : enqueue_put(p)
    \/ \E p \in Producers : enqueue_count(p)
    \/ \E p \in Producers : enqueue_store(p)
    \/ run_while
    \/ run_sleep
    \/ run_read_cache
    \/ drain_queue
    \/ send_post
    \/ send_check
    \/ send_done
    \/ success_cache
    \/ success_count
    \/ success_unlink
    \/ failure_cache
    \/ failure_count
    \/ \E t \in Threads : flush_check(t)
    \/ \E t \in Threads : flush_serialize(t)
    \/ \E t \in Threads : flush_open(t)
    \/ \E t \in Threads : flush_write(t)
    \/ start
    \/ stop_set
    \/ stop_join
    \/ stop_return

Spec == Init /\ [][Next]_vars

(***************************************************************************)
(* chunked on its own: every working set of up to MaxChunkLen events and   *)
(* every batch size of 1..MaxBatch.                                        *)
(***************************************************************************)
SeqsUpTo(S, n) == UNION {[1..k -> S] : k \in 0..n}

senderVars ==
    <<shared, workerLocal, mpc, flushLocal, producerLocal, history, ghost>>

ChunkInputs ==
    [items : SeqsUpTo({EventPool[1], EventPool[2]}, MaxChunkLen),
     size : 1..MaxBatch]

ChunkInit ==
    /\ file = Absent
    /\ Constructed
    /\ arg \in ChunkInputs
    /\ res = [done |-> FALSE, out |-> <<>>]

\* batches = list(chunked(payloads, self.config.batch_size))
chunk_apply ==
    /\ ~res.done
    /\ res' = [done |-> TRUE, out |-> chunked(arg.items, arg.size)]
    /\ UNCHANGED <<senderVars, arg>>

SpecChunk == ChunkInit /\ [][chunk_apply]_vars

(***************************************************************************)
(* PendingPayload on its own: pending sets of up to MaxSetLen events are   *)
(* saved one after the other, and the file is loaded.                      *)
(***************************************************************************)
StoreEvents == {EventPool[i] : i \in 2..5} \cup {<<"BS", "n">>, <<>>}

PendingSets == SeqsUpTo(StoreEvents, MaxSetLen)

StoreInit ==
    /\ file = Absent
    /\ Constructed
    /\ arg = [saved |-> <<>>, shrunk |-> FALSE]
    /\ res = [done |-> FALSE, out |-> <<>>]

\* PendingPayload(S).dump_to_file(path); arg.shrunk: the file held a longer
\* text before
store_save ==
    \E S \in PendingSets :
        /\ file' = dump_to_file(S)
        /\ arg' = [saved |-> S,
                   shrunk |-> file # Absent /\ Len(file) > Len(dump_to_file(S))]
        /\ res' = [done |-> FALSE, out |-> <<>>]
        /\ UNCHANGED <<queue, pending_cache, sent_count, pending_count,
                       stop_event, workerLocal, mpc, flushLocal,
                       producerLocal, history, ghost>>

\* PendingPayload.load_from_file(path).data
store_load ==
    /\ ~res.done
    /\ res' = [done |-> TRUE, out |-> load_from_file(file)]
    /\ UNCHANGED <<senderVars, arg>>

StoreNext == store_save \/ store_load

SpecStore == StoreInit /\ [][StoreNext]_vars

(***************************************************************************)
(* load_from_file on its own, as DataSender.__init__ calls it: over the    *)
(* absent file and over every file of up to MaxLines lines, each the       *)
(* serialization of an event or a malformed line, the last line ended by a *)
(* line feed or cut short.                                                 *)
(***************************************************************************)
\* Lines json.loads raises JSONDecodeError on: a line cut short, an empty
\* line, and a line with text after the closing brace.
MalformedLines == { <<"LB", "a">>, <<>>, <<"LB", "a", "RB", "a">> }

\* ev is the event a line holds, or Bad.
StoredLines ==
    {[ev |-> EventPool[i], line |-> json_dumps(EventPool[i])] : i \in 1..2}
        \cup {[ev |-> Bad, line |-> m] : m \in MalformedLines}

LoadInputs ==
    [lines : SeqsUpTo(StoredLines, MaxLines), newline : BOOLEAN, exists : {TRUE}]
        \cup {[lines |-> <<>>, newline |-> FALSE, exists |-> FALSE]}

\* The text of the file made of these lines.
FileOf(in) ==
    IF ~in.exists THEN Absent
    ELSE join([i \in 1..Len(in.lines) |-> in.lines[i].line])
             \o (IF in.newline THEN <<"LF">> ELSE <<>>)

LoadInit ==
    /\ arg \in LoadInputs
    /\ file = FileOf(arg)
    /\ Constructed
    /\ res = [done |-> FALSE, out |-> <<>>]

\* PendingPayload.load_from_file(path).data, called once more
load_apply ==
    /\ ~res.done
    /\ res' = [done |-> TRUE, out |-> load_from_file(file)]
    /\ UNCHANGED <<senderVars, arg>>

SpecLoad == LoadInit /\ [][load_apply]_vars

(***************************************************************************)
(* The worker with two producer threads and no stop(): enqueue calls run   *)
(* against one another and against the drain of the worker's cycles.       *)
(***************************************************************************)
DrainProducers == {"p1", "p2"}

DrainInit ==
    /\ file \in {Absent, dump_text(<<EventPool[1]>>)}
    /\ ConstructedWith(DrainProducers)
    /\ arg = <<>>
    /\ res = <<>>

DrainNext ==
    \/ \E p \in DrainProducers : enqueue_put(p)
    \/ \E p \in DrainProducers : enqueue_count(p)
    \/ \E p \in DrainProducers : enqueue_store(p)
    \/ start
    \/ run_while
    \/ run_sleep
    \/ run_read_cache
    \/ drain_queue
    \/ send_post
    \/ send_check
    \/ send_done
    \/ success_cache
    \/ success_count
    \/ success_unlink
    \/ failure_cache
    \/ failure_count
    \/ flush_check("w")
    \/ flush_serialize("w")
    \/ flush_open("w")
    \/ flush_write("w")

SpecDrain == DrainInit /\ [][DrainNext]_vars

(***************************************************************************)
(* dump_to_file and a crash of the process: a pending set is saved over    *)
(* the stored one, the text reaching the file character by character, and  *)
(* at any point the process may be killed and started again, which loads   *)
(* the file as it is.                                                      *)
(***************************************************************************)
CrashSets == SeqsUpTo({EventPool[1], EventPool[2]}, MaxSetLen)

\* arg.prev: the pending set last saved whole; arg.saving: the one being
\* saved; arg.pos: the characters of its text that have reached the file.
CrashInit ==
    /\ \E P \in CrashSets :
         /\ file = IF P = <<>> THEN Absent ELSE dump_to_file(P)
         /\ arg = [prev |-> P, saving |-> P, pos |-> 0, phase |-> "stored"]
    /\ Constructed
    /\ res = [done |-> FALSE, out |-> <<>>]

\* utils.py line 93: write_text opens the path for writing, which empties
\* the file
save_open ==
    /\ ~res.done
    /\ arg.phase = "stored"
    /\ \E S \in CrashSets \ {<<>>} :
         arg' = [arg EXCEPT !.saving = S, !.pos = 0, !.phase = "writing"]
    /\ file' = <<>>
    /\ UNCHANGED <<queue, pending_cache, sent_count, pending_count,
                   stop_event, workerLocal, mpc, flushLocal, producerLocal,
                   history, ghost, res>>

\* utils.py line 93: one more character of the text reaches the file
save_write ==
    /\ ~res.done
    /\ arg.phase = "writing"
    /\ arg.pos < Len(dump_text(arg.saving))
    /\ file' = Append(file, dump_text(arg.saving)[arg.pos + 1])
    /\ arg' = [arg EXCEPT !.pos = arg.pos + 1]
    /\ UNCHANGED <<queue, pending_cache, sent_count, pending_count,
                   stop_event, workerLocal, mpc, flushLocal, producerLocal,
                   history, ghost, res>>

\* utils.py line 93: the text is written and write_text closes the file
save_close ==
    /\ ~res.done
    /\ arg.phase = "writing"
    /\ arg.pos = Len(dump_text(arg.saving))
    /\ arg' = [arg EXCEPT !.prev = arg.saving, !.pos = 0, !.phase = "stored"]
    /\ UNCHANGED <<senderVars, res>>

\* The process is killed and started again: sender.py lines 30-31 load the
\* file as the crash left it.
crash_restart ==
    /\ ~res.done
    /\ res' = [done |-> TRUE, out |-> load_from_file(file)]
    /\ UNCHANGED <<senderVars, arg>>

CrashNext == save_open \/ save_write \/ save_close \/ crash_restart

SpecCrash == CrashInit /\ [][CrashNext]_vars

(***************************************************************************)
(* The worker started once and never stopped, with an endpoint that fails  *)
(* as it likes until, at some point, it accepts every POST.  The worker    *)
(* thread is scheduled fairly: time.sleep returns, session.post returns    *)
(* within its timeout, and each statement is executed in the end; so is a  *)
(* producer inside enqueue.  Producers need not enqueue.                   *)
(***************************************************************************)
\* From now on session.post gives a successful response to every chunk.
transport_recovers ==
    /\ ~transport_up
    /\ transport_up' = TRUE
    /\ UNCHANGED <<shared, workerLocal, mpc, flushLocal, producerLocal,
                   history, drained, threads_alive, write_error, pure>>

\* main.py line 58: start_tracking calls sender.start(), once
start_once == lifecycle = "new" /\ start

\* The steps of the thread running _run.
worker_step ==
    \/ run_while
    \/ run_sleep
    \/ run_read_cache
    \/ drain_queue
    \/ send_post
    \/ send_check
    \/ send_done
    \/ success_cache
    \/ success_count
    \/ success_unlink
    \/ failure_cache
    \/ failure_count
    \/ flush_check("w")
    \/ flush_serialize("w")
    \/ flush_open("w")
    \/ flush_write("w")

\* The steps of a producer that has put its event.
enqueue_rest == \E p \in Producers : enqueue_count(p) \/ enqueue_store(p)

LiveNext ==
    \/ \E p \in Producers : enqueue_put(p)
    \/ enqueue_rest
    \/ start_once
    \/ worker_step
    \/ transport_recovers

SpecLive ==
    /\ Init
    /\ [][LiveNext]_vars
    /\ WF_vars(start_once)
    /\ WF_vars(worker_step)
    /\ WF_vars(enqueue_rest)
    /\ WF_vars(transport_recovers)

(***************************************************************************)
(* Properties.                                                             *)
(***************************************************************************)
store == load_from_file(file)

\* The worker is between the tick of a cycle and the end of that cycle.
InCycle == wpc \notin {"none", "exit", "L63", "L64"}

\* The working set of a cycle until line 74 or line 70 has taken it over.
InHand == IF wpc \in {"L56", "L81", "L88", "L74"} THEN Range(pending) ELSE {}

ProducersIdle == \A p \in DOMAIN ppc : ppc[p] = "idle"

\* The events of chunks i..j of the current cycle, in order.
ChunkEvents(i, j) == Concat(SubSeq(batches, i, j))

\* C1, as stated: at every point the events delivered so far together with
\* the events in the persistent pending store are exactly the events
\* accepted so far.
NoSilentLoss == Range(accepted) = delivered \cup Range(store)

\* C1, amended: at every point the events delivered so far, the events in
\* the persistent store, the events still in the queue and the events the
\* sender holds in memory (the working set of the cycle under way, or
\* _pending_cache) are together exactly the events accepted so far.
NoLossInMemory ==
    Range(accepted) = delivered \cup Range(store) \cup Range(queue)
                        \cup Range(pending_cache) \cup InHand

\* C1 witness: one event delivered, one that failed and is in the store, and
\* one waiting in the queue, between two cycles.
NoLossWitness ==
    /\ ~InCycle
    /\ delivered # {}
    /\ pending_cache # <<>>
    /\ store = pending_cache
    /\ queue # <<>>
    /\ Range(pending_cache) \cap delivered = {}

\* C2, as stated: when the worker has written the store at the end of a
\* cycle whose chunk idx failed after chunks 1..idx-1 succeeded, the store
\* holds exactly the events of chunks idx..n, and sent_count has grown by the
\* number of events of chunks 1..idx-1.
PartialFailurePersistsRemainder ==
    [][(wpc = "write" /\ wpc' = "L63" /\ fd["w"])
         => /\ load_from_file(file') = ChunkEvents(idx, Len(batches))
            /\ sent_count = cycleSent + Len(ChunkEvents(1, idx - 1))]_vars

\* C3, as stated: when stop() has returned and no send cycle has ever run,
\* every event that was in the queue when stop() was called is in the
\* persistent store.
StopThenFlush ==
    (lifecycle = "stopped" /\ wpc = "none")
        => Range(lastStop) \subseteq Range(store)

\* C4, as stated: once stop() has returned and until start() is called, the
\* worker begins no send cycle and starts no POST.
StoppedNoSends ==
    [][lifecycle = "stopped"
         => /\ ~(wpc = "L64" /\ wpc' = "L65")
            /\ ~(wpc = "L81" /\ wpc' = "L88")]_vars

\* C5, as stated: when a cycle whose chunks all succeeded ends (line 72),
\* the store is removed, the pending set is empty and pending_count is the
\* number of events in the queue.
FullSuccessClearsExactCount ==
    [][(wpc = "L72" /\ wpc' = "L63")
         => /\ file' = Absent
            /\ pending_cache' = <<>>
            /\ pending_count' = Len(queue')]_vars

\* C5, amended: when a cycle whose chunks all succeeded ends (line 72), the
\* store is removed and the pending set is empty; and pending_count is the
\* number of events in the queue provided no enqueue call was under way
\* when line 71 ran or began between line 71 and line 72.
FullSuccessClears ==
    [][(wpc = "L72" /\ wpc' = "L63")
         => /\ file' = Absent
            /\ pending_cache' = <<>>
            /\ (~overlap => pending_count' = Len(queue'))]_vars

\* C5 witness: line 71 has run in a cycle that delivered the whole working
\* set, the queue has accumulated an event since the drain (its enqueue call
\* over before line 71), and the file to remove exists.
FullSuccessWitness ==
    /\ wpc = "L72"
    /\ ~overlap
    /\ queue # <<>>
    /\ pending_count = Len(queue)
    /\ file # Absent
    /\ Range(pending) \subseteq delivered

\* C6: a chunk fails exactly when the POST raised or answered with a status
\* of 300 or more; a failed chunk ends the cycle's sending and counts
\* nothing; a successful chunk adds its length to sent_count and the next
\* chunk in order is the next to go; and whenever chunk idx is about to go or
\* has just gone, chunks 1..idx-1 are exactly those sent and counted so far.
PerChunkFailStop ==
    /\ [](wpc \in {"L81", "L88", "L74"}
            => /\ idx \in 1..(Len(batches) + 1)
               /\ sent_count = cycleSent + Len(ChunkEvents(1, idx - 1)))
    /\ [][(wpc = "L88" /\ wpc' # "L88")
            => IF response.raised \/ response.status >= 300
               THEN /\ wpc' = "L74"
                    /\ sent_count' = sent_count
                    /\ idx' = idx
               ELSE /\ wpc' = "L81"
                    /\ sent_count' = sent_count + Len(batches[idx])
                    /\ idx' = idx + 1]_vars

\* C6 witness: the second chunk of a cycle was answered with status 300
\* after the first chunk succeeded.
PerChunkWitness ==
    /\ wpc = "L88"
    /\ idx = 2
    /\ response = [raised |-> FALSE, status |-> 300]
    /\ sent_count = cycleSent + Len(batches[1])

\* C7, as stated: the pending total of stats() is never negative, and when
\* no enqueue call and no send cycle is under way it is the number of events
\* in the queue plus the number of events in the pending set.
StatsSnapshot ==
    /\ stats[2] >= 0
    /\ (ProducersIdle /\ ~InCycle)
         => stats[2] = Len(queue) + Len(pending_cache)

\* C8: a cycle that finds the pending set and the queue empty goes back to
\* the loop test without entering the send loop, leaves the store and the
\* files being written as they are and leaves stats() unchanged.
EmptyCycleNoOp ==
    [][(wpc = "L56" /\ pending = <<>> /\ queue = <<>> /\ wpc' # "L56")
         => /\ wpc' = "L63"
            /\ response' = response
            /\ file' = file
            /\ flushLocal' = flushLocal
            /\ stats' = stats]_vars

\* C8 witness: the drain of a cycle is about to find the queue empty with
\* an empty pending set, after events were delivered, with a store file
\* present.
EmptyCycleWitness ==
    /\ wpc = "L56"
    /\ pending = <<>>
    /\ queue = <<>>
    /\ sent_count > 0
    /\ file # Absent

\* C9: for a working set of length L and a batch size b >= 1, chunked gives
\* ceil(L / b) chunks, each but the last of length b, the last one not
\* empty, and the chunks in order make up the working set.
ChunkingLaw ==
    res.done =>
        LET L == Len(arg.items)
            b == arg.size
            out == res.out
        IN  /\ Len(out) = (L + b - 1) \div b
            /\ \A i \in 1..(Len(out) - 1) : Len(out[i]) = b
            /\ out # <<>> => Len(out[Len(out)]) \in 1..b
            /\ Concat(out) = arg.items

\* C9 witness: a working set cut into a full chunk and a shorter last one.
ChunkingWitness ==
    /\ res.done
    /\ arg.size = 2
    /\ Len(arg.items) = 3
    /\ Len(res.out) = 2
    /\ Len(res.out[2]) = 1

\* C10: loading the store after a save gives the pending set that was saved,
\* the same events in the same order, whatever the file held before.
RoundTrip == res.done => res.out = arg.saved

\* C10 witness: a set of two events holding a line feed and a line separator
\* was saved over a longer file and loaded.
RoundTripWitness ==
    /\ res.done
    /\ arg.shrunk
    /\ arg.saved = <<EventPool[2], EventPool[4]>>
    /\ res.out = arg.saved

\* The events of the well-formed lines, in the order of the lines.
WellFormed(lines) ==
    LET ok == SelectSeq(lines, LAMBDA l : l.ev # Bad)
    IN  [i \in 1..Len(ok) |-> ok[i].ev]

\* C11: loading a file gives exactly the events of its well-formed lines, in
\* their stored order, wherever the malformed lines are (a last line cut
\* short included), and gives the empty set when the file is absent; the
\* pending set DataSender is constructed with is that load.
CorruptedEntrySkip ==
    /\ pending_cache = WellFormed(arg.lines)
    /\ pending_count = Len(WellFormed(arg.lines))
    /\ res.done => res.out = WellFormed(arg.lines)

\* C11: five lines of which the third is malformed, and the four valid
\* entries loaded.
CorruptedEntrySkipWitness ==
    /\ res.done
    /\ Len(arg.lines) = 5
    /\ {i \in 1..5 : arg.lines[i].ev = Bad} = {3}
    /\ Len(res.out) = 4

\* Thread t is inside write_text: it has opened the store for writing and
\* has not yet written and closed it.
InStoreWrite(t) == pcOf(t) = "write"

\* C12: the worker and the thread running stop() are never inside a write of
\* the store together, and once stop() has returned with no cycle under way
\* and the in-memory pending set cleared by the worker, the store holds no
\* event: the flush of stop() has not written back what the worker
\* delivered and cleared.
SingleWriter ==
    /\ ~(InStoreWrite("m") /\ InStoreWrite("w"))
    /\ (lifecycle = "stopped" /\ mpc = "idle" /\ ~InCycle /\ pending_cache = <<>>)
          => store = <<>>

\* The events enqueue has put on the queue, in the order of the puts.
EnqueuedSeq == SelectSeq(accepted, LAMBDA e : e # EventPool[1])

\* C13: with producers enqueuing while the worker drains, the events the
\* drains have returned so far, followed by the events still queued, are
\* the events put, each once and in the order of the puts (hence in each
\* producer's own order); and the working set of the drain under way is
\* the pending set followed by the last events returned, in that order.
DrainExactlyOnce ==
    /\ drained \o queue = EnqueuedSeq
    /\ wpc = "L56" =>
          \E k \in 0..Len(drained) :
              pending = pending_cache \o SubSeq(drained, k + 1, Len(drained))

\* C13: a drain under way has returned the event of one producer while the
\* event of the other is on the queue, both producers still being inside
\* enqueue.
DrainWitness ==
    /\ wpc = "L56"
    /\ Len(drained) = 1
    /\ Len(queue) = 1
    /\ \A p \in DrainProducers : ppc[p] # "idle"

\* C14: a step in which the write of the store fails takes the worker back
\* to the loop test, or stop() on to its return, and leaves the in-memory
\* pending set as it was (after a failed cycle: the working set of that
\* cycle); the pending set is not changed between cycles; and the working
\* set of every cycle begins as the pending set.
WriteFailureNotFatal ==
    [][ /\ (wpc = "open" /\ wpc' \notin {"open", "write"}) =>
              /\ wpc' = "L63"
              /\ threads_alive' = threads_alive
              /\ pending # <<>>
              /\ pending_cache' = pending
        /\ (mpc = "open" /\ mpc' \notin {"open", "write"}) =>
              /\ mpc' = "L46"
              /\ wpc' = wpc
              /\ pending_cache' = pending_cache
        /\ wpc \in {"L63", "L64", "L65"} => pending_cache' = pending_cache
        /\ (wpc = "L65" /\ wpc' = "L56") => pending' = pending_cache
      ]_vars

\* C14: a cycle has begun with a pending set that no write has put in the
\* store: nothing was ever delivered, so nothing removed the file, and the
\* write at the end of the failed cycle that made the pending set failed.
WriteFailureWitness ==
    /\ wpc = "L56"
    /\ pending_cache # <<>>
    /\ pending = pending_cache
    /\ file = Absent
    /\ delivered = {}
    /\ lifecycle = "started"

\* C15: whatever start() and stop() calls are made, at most one thread
\* started on _run has not returned from it, so the cycles of the send loop
\* are the cycles of one thread and follow one another.
SingleFlight == threads_alive <= 1

\* C15: start() has returned while the worker that an earlier stop() did not
\* wait for is still in a cycle, and no second thread was started.
SingleFlightWitness ==
    /\ lifecycle = "started"
    /\ mpc = "idle"
    /\ stop_event
    /\ InCycle
    /\ threads_alive = 1

\* C16: in every state, whatever the worker or stop() is doing and however
\* long the queue is, a producer can take its next step: an idle producer
\* can put its event (as long as the model has an event left to enqueue),
\* and a producer inside enqueue can go on and return.
EnqueueNeverBlocks ==
    \A p \in DOMAIN ppc :
        /\ (ppc[p] = "idle" /\ Cardinality(Enqueued) < MaxEvents)
              => ENABLED enqueue_put(p)
        /\ ppc[p] = "L50" => ENABLED enqueue_count(p)
        /\ ppc[p] = "L50w" => ENABLED enqueue_store(p)

\* C16: the queue, emptied by the drain of the cycle, holds an event again
\* while the POST of that cycle is in flight: it was put during the send.
EnqueueWitness ==
    /\ wpc = "L88"
    /\ queue # <<>>
    /\ ppc["p1"] = "L50"

\* C17: whenever the process is killed, be it in the middle of saving a
\* pending set over the stored one, the load of the next start gives the
\* whole of the set stored before or the whole of the set being saved.
CrashSafeStore == res.done => res.out \in {arg.prev, arg.saving}

\* C18: the working set of a cycle is a run of consecutive accepted events
\* in the order they were accepted (the pending set, then the events
\* drained, first in first out), and the delivered events are always the
\* first so many of the accepted ones: when an event has been delivered,
\* every event accepted before it has been delivered too.
OlderFirst ==
    /\ InCycle =>
          \E a \in 1..(Len(accepted) + 1) :
              pending = SubSeq(accepted, a, a + Len(pending) - 1)
    /\ \A i, j \in 1..Len(accepted) :
          (i < j /\ accepted[j] \in delivered) => accepted[i] \in delivered

\* C18: a cycle whose working set is the stored event followed by the two
\* enqueued ones has delivered its first chunk and is sending the second.
OlderFirstWitness ==
    /\ wpc = "L88"
    /\ idx = 2
    /\ pending_cache = <<EventPool[1]>>
    /\ pending = <<EventPool[1], EventPool[2], EventPool[3]>>
    /\ delivered = {EventPool[1], EventPool[2]}

\* Every accepted event has been delivered.
AllDelivered == Range(accepted) \subseteq delivered

\* C19: with the worker running, scheduled fairly and never stopped, and
\* the endpoint accepting every POST from some point on, there comes a
\* point from which every accepted event has been delivered, the store is
\* empty and stats() reports 0 pending.
RetryLeadsToDelivery == <>[](AllDelivered /\ store = <<>> /\ stats[2] = 0)

\* C20: when the last call to have returned is start(), a thread is running
\* the send loop and the stop event is clear, so that the loop goes on.
RestartAfterStop == lifecycle = "started" => (is_alive /\ ~stop_event)

\* C21: sent_count never exceeds the number of events accepted so far (the
\* events loaded at construction and the events enqueued, all different):
\* no event is counted twice.
SentCountedOnce == sent_count <= Len(accepted)

\* C22: whenever no cycle of the worker and no stop() is under way and no
\* write of the store has failed, loading the store (an absent file read
\* as empty) gives the in-memory pending set.
DiskMirrorsMemory ==
    (~InCycle /\ mpc = "idle" /\ ~write_error) => store = pending_cache

====
